---- MODULE Spec2Model ----
(***************************************************************************)
(* OrderChad: the order lifecycle and inventory core.                      *)
(*                                                                         *)
(* The store (PostgreSQL behind Prisma) is the committed state: stock,     *)
(* price, cartItems and orders.  Every HTTP request is a process of its    *)
(* own; the handlers of src/src/app/api are translated await by await.     *)
(* POST /api/orders is a multi-step process (req, tx); its interactive     *)
(* transaction keeps its writes in tx[r] until the commit, so that no      *)
(* other request sees them before.  An UPDATE of a product row locks the   *)
(* row until the transaction ends: a second writer of that row waits.      *)
(*                                                                         *)
(* Prices are integers (cents).  Two requests r1, r2 may be in flight at    *)
(* once; POST /api/cart is not part of the sources, so cart lines exist    *)
(* from the start and are never added.  stock0 is a history variable: the  *)
(* stock at the start.  DELETE /api/cart/items/[id] (creq) and             *)
(* POST /api/reviews (rreq) are processes too: each looks a row up and     *)
(* writes it in a later statement.  The single-statement handlers answer   *)
(* in one step and leave their response in reply.  DELETE                  *)
(* /api/products/[id] (preq) is a process as well; catalog is the set of   *)
(* Product rows.  The schema's relations have no onDelete, so a row that   *)
(* another row references cannot be deleted, and no row can be inserted    *)
(* that references a deleted one.                                          *)
(***************************************************************************)
EXTENDS Integers, Sequences, FiniteSets, TLC

\* ---- bounds of the model ------------------------------------------------
MaxStock == 2
MaxQty == 2
MaxPrice == 2

\* ---- the static part of the store ----------------------------------------
\* the products of the catalog at the start; catalog holds those not deleted
Products == {"p1", "p2"}
Users == {"u1", "u2", "m1"}
NoSession == "anon"
Callers == Users \cup {NoSession}

\* "ad1" is the store's administrator; it owns no cart and no address.
Admin == "ad1"
UserRole(u) ==
  CASE u = "m1" -> "MANAGER" [] u = Admin -> "ADMIN" [] OTHER -> "CUSTOMER"

Addresses == {"a1", "a2", "a3"}
NoAddress == ""
AddressIds == Addresses \cup {"a9", NoAddress}
AddressOwner(a) == CASE a = "a1" -> "u1" [] a = "a2" -> "u2" [] OTHER -> "m1"

NoCart == "none"
CartOf(u) == CASE u = "u1" -> "c1" [] u = "u2" -> "c2" [] OTHER -> NoCart

\* The cart lines a cart may hold at the start: id, cart, product.
LineSlots ==
  { [id |-> "i1", cartId |-> "c1", productId |-> "p1"],
    [id |-> "i2", cartId |-> "c1", productId |-> "p2"],
    [id |-> "i3", cartId |-> "c2", productId |-> "p1"] }

\* enum OrderStatus of the schema, and validStatuses of orders/[id]/route.ts
OrderStatus == {"PENDING", "PROCESSING", "SHIPPED", "DELIVERED", "CANCELLED"}
validStatusesAndRefunded ==
  {"PENDING", "PROCESSING", "SHIPPED", "DELIVERED", "CANCELLED", "REFUNDED"}
validStatuses == {"PENDING", "PROCESSING", "SHIPPED", "DELIVERED", "CANCELLED"}

Reqs == {"r1", "r2"}
OrderIds == 1..(Cardinality(Reqs) + 1)

VARIABLES stock, price, cartItems, orders, req, tx, reply, stock0,
          creq, rreq, reviews, preq, catalog

db == <<stock, price, cartItems, orders>>
vars == <<stock, price, cartItems, orders, req, tx, reply, stock0, creq, rreq, reviews, preq, catalog>>

\* ---- responses ------------------------------------------------------------
HttpStatus(resp) ==
  CASE resp = "CREATED" -> 201
    [] resp = "OK" -> 200
    [] resp = "UNAUTHORIZED" -> 401
    [] resp = "FORBIDDEN" -> 403
    [] resp = "NOT_FOUND" -> 404
    [] resp = "INTERNAL" -> 500
    [] OTHER -> 400

NoReply == [op |-> "none", caller |-> NoSession, resp |-> "NONE"]

\* ---- requests of the other multi-step handlers --------------------------------
\* one DELETE /api/cart/items/[id] in flight
NoCartReq == [pc |-> "idle", caller |-> NoSession, id |-> ""]

\* the POST /api/reviews requests in flight
RevReqs == {"v1", "v2"}
\* the rating of the request body: absent, an integer n, or n + 1/2
NoRating == [type |-> "undefined", n |-> 0]
NoComment == "undefined"
IdleRev ==
  [pc |-> "idle", user |-> NoSession, productId |-> "", rating |-> NoRating,
   comment |-> NoComment, existing |-> 0, resp |-> "NONE"]

\* one DELETE /api/products/[id] in flight
NoProductReq == [pc |-> "idle", caller |-> NoSession, productId |-> ""]

NoOtherRequests ==
  /\ creq = NoCartReq
  /\ rreq = [v \in RevReqs |-> IdleRev]
  /\ reviews = <<>>
  /\ preq = NoProductReq
  /\ catalog = Products

\* ---- POST /api/orders -------------------------------------------------------
IdleReq ==
  [pc |-> "idle", user |-> NoSession, addressId |-> NoAddress,
   cart |-> NoCart, items |-> {}, total |-> 0, resp |-> "NONE"]

NoTx == [order |-> <<>>, dec |-> {}, del |-> {}]

Done(r, resp) ==
  req' = [req EXCEPT ![r] = [IdleReq EXCEPT !.pc = "done", !.user = req[r].user,
                                            !.addressId = req[r].addressId,
                                            !.resp = resp]]

\* prisma.address.findUnique({where: {id, userId}})
AddressFoundById(addressId, userId) == addressId \in Addresses
AddressFound(addressId, userId) ==
  addressId \in Addresses /\ AddressOwner(addressId) = userId

\* prisma.cart.findUnique({where: {userId}, include: {items: {include: {product}}}})
CartItemsWithProduct(cart) ==
  { [id |-> ci.id, cartId |-> ci.cartId, productId |-> ci.productId,
     quantity |-> ci.quantity,
     product |-> [id |-> ci.productId, price |-> price[ci.productId],
                  stock |-> stock[ci.productId]]]
    : ci \in {c \in cartItems : c.cartId = cart} }

\* !cart || cart.items.length === 0
CartIsEmptyNoCartOnly(cart, items) == cart = NoCart
CartIsEmpty(cart, items) == cart = NoCart \/ Cardinality(items) = 0

\* cart.items.reduce((sum, item) => sum + item.product.price * item.quantity, 0)
RECURSIVE Total(_)
Total(items) ==
  IF items = {} THEN 0
  ELSE LET item == CHOOSE i \in items : TRUE
       IN  item.product.price * item.quantity + Total(items \ {item})

\* for (const item of cart.items) if (item.quantity > item.product.stock) return 400
InsufficientStockAllLines(items) ==
  \A item \in items : item.quantity > item.product.stock
InsufficientStock(items) ==
  \E item \in items : item.quantity > item.product.stock

PostOrders(r, caller, addressId) ==
  /\ req[r].pc = "idle"
  /\ LET started == [req[r] EXCEPT !.user = caller, !.addressId = addressId] IN
     IF caller = NoSession
     THEN req' = [req EXCEPT ![r] = [started EXCEPT !.pc = "done", !.resp = "UNAUTHORIZED"]]
     ELSE IF addressId = NoAddress
     THEN req' = [req EXCEPT ![r] = [started EXCEPT !.pc = "done", !.resp = "ADDRESS_REQUIRED"]]
     ELSE IF ~AddressFound(addressId, caller)
     THEN req' = [req EXCEPT ![r] = [started EXCEPT !.pc = "done", !.resp = "INVALID_ADDRESS"]]
     ELSE req' = [req EXCEPT ![r] = [started EXCEPT !.pc = "cart"]]
  /\ UNCHANGED <<db, tx, reply, stock0, creq, rreq, reviews, preq, catalog>>

PostOrdersReadCart(r) ==
  /\ req[r].pc = "cart"
  /\ LET cart == CartOf(req[r].user)
         items == CartItemsWithProduct(cart)
     IN  IF CartIsEmpty(cart, items)
         THEN Done(r, "EMPTY_CART")
         ELSE req' = [req EXCEPT ![r].pc = "check", ![r].cart = cart,
                                 ![r].items = items, ![r].total = Total(items)]
  /\ UNCHANGED <<db, tx, reply, stock0, creq, rreq, reviews, preq, catalog>>

PostOrdersCheckStock(r) ==
  /\ req[r].pc = "check"
  /\ IF InsufficientStock(req[r].items)
     THEN Done(r, "INSUFFICIENT_STOCK")
     ELSE req' = [req EXCEPT ![r].pc = "tx_create"]
  /\ UNCHANGED <<db, tx, reply, stock0, creq, rreq, reviews, preq, catalog>>

\* tx.order.create({data: {userId, addressId, total, status: 'PENDING', items: {create: ...}}})
OrderItemsStillInCart(items) ==
  { [line |-> item.id, productId |-> item.productId,
     quantity |-> item.quantity, price |-> item.product.price]
    : item \in {i \in items : \E ci \in cartItems : ci.id = i.id} }
OrderItems(items) ==
  { [line |-> item.id, productId |-> item.productId,
     quantity |-> item.quantity, price |-> item.product.price] : item \in items }

NewOrder(r) ==
  [userId |-> req[r].user, addressId |-> req[r].addressId,
   total |-> req[r].total, status |-> "PENDING",
   items |-> OrderItems(req[r].items)]

\* (prisma.order.create in place of tx.order.create: the write leaves the transaction)
TxCreateOrderOutsideTx(r) ==
  /\ req[r].pc = "tx_create"
  /\ orders' = Append(orders,
       [id |-> Len(orders) + 1, createdAt |-> Len(orders) + 1,
        userId |-> NewOrder(r).userId, addressId |-> NewOrder(r).addressId,
        total |-> NewOrder(r).total, status |-> NewOrder(r).status,
        items |-> NewOrder(r).items])
  /\ req' = [req EXCEPT ![r].pc = IF req[r].items = {} THEN "tx_clear" ELSE "tx_stock"]
  /\ UNCHANGED <<stock, price, cartItems, tx, reply, stock0, creq, rreq, reviews, preq, catalog>>
TxCreateOrder(r) ==
  /\ req[r].pc = "tx_create"
  \* OrderItem.product is a required relation: the insert needs the Product rows
  /\ \A item \in req[r].items : item.productId \in catalog
  /\ tx' = [tx EXCEPT ![r].order = <<NewOrder(r)>>]
  /\ req' = [req EXCEPT ![r].pc = IF req[r].items = {} THEN "tx_clear" ELSE "tx_stock"]
  /\ UNCHANGED <<db, reply, stock0, creq, rreq, reviews, preq, catalog>>

\* for (const item of cart.items) await tx.product.update({... stock: {decrement}})
\* one statement of the loop: the next line of cart.items not yet decremented
\* the transactions that hold the row lock of product p (an UPDATE not yet committed)
LockedBy(p) ==
  {r \in Reqs : \E item \in req[r].items : item.id \in tx[r].dec /\ item.productId = p}

TxUpdateStock(r) ==
  /\ req[r].pc = "tx_stock"
  /\ LET left == {item \in req[r].items : item.id \notin tx[r].dec}
         item == CHOOSE i \in left : TRUE
     IN  /\ LockedBy(item.productId) \subseteq {r}
         /\ tx' = [tx EXCEPT ![r].dec = @ \cup {item.id}]
         /\ req' = [req EXCEPT ![r].pc = IF left = {item} THEN "tx_clear" ELSE "tx_stock"]
  /\ UNCHANGED <<db, reply, stock0, creq, rreq, reviews, preq, catalog>>

\* tx.cartItem.deleteMany({where: {cartId: cart.id}}): the rows it sees now
TxClearCart(r) ==
  /\ req[r].pc = "tx_clear"
  /\ tx' = [tx EXCEPT ![r].del = {ci.id : ci \in {c \in cartItems : c.cartId = req[r].cart}}]
  /\ req' = [req EXCEPT ![r].pc = "commit"]
  /\ UNCHANGED <<db, reply, stock0, creq, rreq, reviews, preq, catalog>>

\* stock: {decrement: item.quantity}, summed per product over the statements issued
RECURSIVE DecrementByOne(_, _)
DecrementByOne(items, p) ==
  IF items = {} THEN 0
  ELSE LET item == CHOOSE i \in items : TRUE
       IN  (IF item.productId = p THEN 1 ELSE 0)
           + DecrementByOne(items \ {item}, p)
RECURSIVE Decrement(_, _)
Decrement(items, p) ==
  IF items = {} THEN 0
  ELSE LET item == CHOOSE i \in items : TRUE
       IN  (IF item.productId = p THEN item.quantity ELSE 0)
           + Decrement(items \ {item}, p)

\* the callback returns: the transaction commits and its writes become visible
TxCommit(r) ==
  /\ req[r].pc = "commit"
  /\ orders' = orders \o
       [i \in 1..Len(tx[r].order) |->
          [id |-> Len(orders) + i, createdAt |-> Len(orders) + i,
           userId |-> tx[r].order[i].userId, addressId |-> tx[r].order[i].addressId,
           total |-> tx[r].order[i].total, status |-> tx[r].order[i].status,
           items |-> tx[r].order[i].items]]
  /\ stock' = [p \in Products |->
       stock[p] - Decrement({item \in req[r].items : item.id \in tx[r].dec}, p)]
  /\ cartItems' = {ci \in cartItems : ci.id \notin tx[r].del}
  /\ tx' = [tx EXCEPT ![r] = NoTx]
  /\ Done(r, "CREATED")
  /\ UNCHANGED <<price, reply, stock0, creq, rreq, reviews, preq, catalog>>

\* a statement of the transaction throws: rollback, catch, 500
TxPcs == {"tx_create", "tx_stock", "tx_clear", "commit"}
TxFail(r) ==
  /\ req[r].pc \in TxPcs
  /\ tx' = [tx EXCEPT ![r] = NoTx]
  /\ Done(r, "INTERNAL")
  /\ UNCHANGED <<db, reply, stock0, creq, rreq, reviews, preq, catalog>>

Checkout(r) ==
  \/ \E caller \in Callers, addressId \in AddressIds : PostOrders(r, caller, addressId)
  \/ PostOrdersReadCart(r)
  \/ PostOrdersCheckStock(r)
  \/ TxCreateOrder(r)
  \/ TxUpdateStock(r)
  \/ TxClearCart(r)
  \/ TxCommit(r)
  \/ TxFail(r)

\* ---- the store at the start -------------------------------------------------
InitPrice == [p \in Products |-> IF p = "p1" THEN 1 ELSE MaxPrice]

Init ==
  /\ stock \in [Products -> 0..MaxStock]
  /\ price = InitPrice
  /\ \E q \in [{s.id : s \in LineSlots} -> 0..MaxQty] :
       cartItems = { [id |-> s.id, cartId |-> s.cartId, productId |-> s.productId,
                      quantity |-> q[s.id]] : s \in {t \in LineSlots : q[t.id] > 0} }
  /\ orders = <<>>
  /\ req = [r \in Reqs |-> IdleReq]
  /\ tx = [r \in Reqs |-> NoTx]
  /\ reply = NoReply
  /\ stock0 = stock
  /\ NoOtherRequests

\* ---- PUT /api/products/[id] ---------------------------------------------------
ProductIds == Products \cup {"p9"}
IsStaff(caller) == caller \in Users /\ UserRole(caller) \in {"MANAGER", "ADMIN"}

PutProduct(caller, productId, missing, newPrice, newStock) ==
  /\ IF caller = NoSession
     THEN reply' = [op |-> "PUT_PRODUCT", caller |-> caller, resp |-> "UNAUTHORIZED"]
          /\ UNCHANGED <<stock, price>>
     ELSE IF ~IsStaff(caller)
     THEN reply' = [op |-> "PUT_PRODUCT", caller |-> caller, resp |-> "FORBIDDEN"]
          /\ UNCHANGED <<stock, price>>
     ELSE IF productId \notin catalog
     THEN reply' = [op |-> "PUT_PRODUCT", caller |-> caller, resp |-> "NOT_FOUND"]
          /\ UNCHANGED <<stock, price>>
     ELSE IF missing
     THEN reply' = [op |-> "PUT_PRODUCT", caller |-> caller, resp |-> "MISSING_FIELDS"]
          /\ UNCHANGED <<stock, price>>
     ELSE /\ LockedBy(productId) = {}
          /\ price' = [price EXCEPT ![productId] = newPrice]
          /\ stock' = [stock EXCEPT ![productId] = newStock]
          /\ reply' = [op |-> "PUT_PRODUCT", caller |-> caller, resp |-> "OK"]
  /\ UNCHANGED <<cartItems, orders, req, tx, stock0, creq, rreq, reviews, preq, catalog>>

\* ---- PATCH /api/orders/[id] ----------------------------------------------------
StatusInputs == validStatuses \cup {"", "REFUNDED"}

\* prisma.order.update({where: {id: orderId}, data: {status}})
UpdateOrderRepriced(orderId, status) ==
  [orders EXCEPT ![orderId].status = status,
                 ![orderId].items = {[it EXCEPT !.price = price[it.productId]] : it \in @}]
UpdateOrderUnlessTerminal(orderId, status) ==
  IF orders[orderId].status \in {"DELIVERED", "CANCELLED"}
  THEN orders
  ELSE [orders EXCEPT ![orderId].status = status]
UpdateOrder(orderId, status) == [orders EXCEPT ![orderId].status = status]

\* (the handler without its role check)
PatchOrderAnyRole(caller, orderId, status) ==
  /\ IF caller = NoSession
     THEN reply' = [op |-> "PATCH_ORDER", caller |-> caller, resp |-> "UNAUTHORIZED"]
          /\ UNCHANGED orders
     ELSE IF status = "" \/ status \notin validStatuses
     THEN reply' = [op |-> "PATCH_ORDER", caller |-> caller, resp |-> "INVALID_STATUS"]
          /\ UNCHANGED orders
     ELSE IF orderId \notin 1..Len(orders)
     THEN reply' = [op |-> "PATCH_ORDER", caller |-> caller, resp |-> "NOT_FOUND"]
          /\ UNCHANGED orders
     ELSE /\ orders' = [orders EXCEPT ![orderId].status = status]
          /\ reply' = [op |-> "PATCH_ORDER", caller |-> caller, resp |-> "OK"]
  /\ UNCHANGED <<stock, price, cartItems, req, tx, stock0, creq, rreq, reviews, preq, catalog>>
\* (the handler with a restock: CANCELLED gives the ordered quantities back)
PatchOrderRestock(caller, orderId, status) ==
  /\ IF caller = NoSession
     THEN reply' = [op |-> "PATCH_ORDER", caller |-> caller, resp |-> "UNAUTHORIZED"]
          /\ UNCHANGED <<orders, stock>>
     ELSE IF UserRole(caller) # "MANAGER" /\ UserRole(caller) # "ADMIN"
     THEN reply' = [op |-> "PATCH_ORDER", caller |-> caller, resp |-> "FORBIDDEN"]
          /\ UNCHANGED <<orders, stock>>
     ELSE IF status = "" \/ status \notin validStatuses
     THEN reply' = [op |-> "PATCH_ORDER", caller |-> caller, resp |-> "INVALID_STATUS"]
          /\ UNCHANGED <<orders, stock>>
     ELSE IF orderId \notin 1..Len(orders)
     THEN reply' = [op |-> "PATCH_ORDER", caller |-> caller, resp |-> "NOT_FOUND"]
          /\ UNCHANGED <<orders, stock>>
     ELSE /\ orders' = [orders EXCEPT ![orderId].status = status]
          /\ stock' = IF status = "CANCELLED"
                       THEN [p \in Products |-> stock[p] + Decrement(orders[orderId].items, p)]
                       ELSE stock
          /\ reply' = [op |-> "PATCH_ORDER", caller |-> caller, resp |-> "OK"]
  /\ UNCHANGED <<price, cartItems, req, tx, stock0, creq, rreq, reviews, preq, catalog>>
PatchOrder(caller, orderId, status) ==
  /\ IF caller = NoSession
     THEN reply' = [op |-> "PATCH_ORDER", caller |-> caller, resp |-> "UNAUTHORIZED"]
          /\ UNCHANGED orders
     ELSE IF UserRole(caller) # "MANAGER" /\ UserRole(caller) # "ADMIN"
     THEN reply' = [op |-> "PATCH_ORDER", caller |-> caller, resp |-> "FORBIDDEN"]
          /\ UNCHANGED orders
     ELSE IF status = "" \/ status \notin validStatuses
     THEN reply' = [op |-> "PATCH_ORDER", caller |-> caller, resp |-> "INVALID_STATUS"]
          /\ UNCHANGED orders
     ELSE IF orderId \notin 1..Len(orders)
     THEN reply' = [op |-> "PATCH_ORDER", caller |-> caller, resp |-> "NOT_FOUND"]
          /\ UNCHANGED orders
     ELSE /\ orders' = UpdateOrder(orderId, status)
          /\ reply' = [op |-> "PATCH_ORDER", caller |-> caller, resp |-> "OK"]
  /\ UNCHANGED <<stock, price, cartItems, req, tx, stock0, creq, rreq, reviews, preq, catalog>>

\* ---- GET /api/orders ------------------------------------------------------------
\* where = (role === 'MANAGER' || role === 'ADMIN') ? {} : {userId: session.user.id}
OrdersWhereAll(caller, order) == TRUE
OrdersWhere(caller, order) ==
  IF UserRole(caller) = "MANAGER" \/ UserRole(caller) = "ADMIN"
  THEN TRUE
  ELSE order.userId = caller

\* prisma.order.findMany({where, orderBy: {createdAt: 'desc'}})
FindManyOrders(caller) ==
  LET found == SelectSeq(orders, LAMBDA order : OrdersWhere(caller, order))
  IN  [k \in 1..Len(found) |-> found[Len(found) + 1 - k]]

GetOrders(caller) ==
  /\ IF caller = NoSession
     THEN reply' = [op |-> "GET_ORDERS", caller |-> caller, resp |-> "UNAUTHORIZED",
                    body |-> <<>>]
     ELSE reply' = [op |-> "GET_ORDERS", caller |-> caller, resp |-> "OK",
                    body |-> FindManyOrders(caller)]
  /\ UNCHANGED <<db, req, tx, stock0, creq, rreq, reviews, preq, catalog>>

\* ---- GET /api/orders/[id] -------------------------------------------------------
\* session.user.role === 'CUSTOMER' && order.userId !== session.user.id
GetOrderForbiddenNever(caller, order) == FALSE
GetOrderForbidden(caller, order) ==
  UserRole(caller) = "CUSTOMER" /\ order.userId # caller

GetOrder(caller, orderId) ==
  /\ IF caller = NoSession
     THEN reply' = [op |-> "GET_ORDER", caller |-> caller, resp |-> "UNAUTHORIZED",
                    body |-> <<>>]
     ELSE IF orderId \notin 1..Len(orders)
     THEN reply' = [op |-> "GET_ORDER", caller |-> caller, resp |-> "NOT_FOUND",
                    body |-> <<>>]
     ELSE IF GetOrderForbidden(caller, orders[orderId])
     THEN reply' = [op |-> "GET_ORDER", caller |-> caller, resp |-> "FORBIDDEN",
                    body |-> <<>>]
     ELSE reply' = [op |-> "GET_ORDER", caller |-> caller, resp |-> "OK",
                    body |-> <<orders[orderId]>>]
  /\ UNCHANGED <<db, req, tx, stock0, creq, rreq, reviews, preq, catalog>>

\* ---- POST /api/reviews ------------------------------------------------------------
RatingInputs ==
  {NoRating} \cup {[type |-> "int", n |-> k] : k \in {-1, 0, 1, 5, 6}}
             \cup {[type |-> "half", n |-> 4]}
CommentInputs == {NoComment, "good"}

\* !rating || rating < 1 || rating > 5
InvalidRatingAbove5Only(rating) ==
  IF rating.type = "int" THEN rating.n > 5 ELSE rating.n >= 5
InvalidRating(rating) ==
  \/ rating.type = "undefined" \/ (rating.type = "int" /\ rating.n = 0)
  \/ rating.n < 1
  \/ IF rating.type = "int" THEN rating.n > 5 ELSE rating.n >= 5

DoneRev(v, resp) ==
  rreq' = [rreq EXCEPT ![v] = [IdleRev EXCEPT !.pc = "done", !.user = rreq[v].user,
                                              !.resp = resp]]

\* session, role, request body
PostReviews(v, caller, productId, rating, comment) ==
  /\ rreq[v].pc \in {"idle", "done"}
  /\ LET started == [IdleRev EXCEPT !.user = caller] IN
     IF caller = NoSession
     THEN rreq' = [rreq EXCEPT ![v] = [started EXCEPT !.pc = "done", !.resp = "UNAUTHORIZED"]]
     ELSE IF UserRole(caller) # "CUSTOMER"
     THEN rreq' = [rreq EXCEPT ![v] = [started EXCEPT !.pc = "done", !.resp = "FORBIDDEN"]]
     ELSE IF productId = ""
     THEN rreq' = [rreq EXCEPT ![v] = [started EXCEPT !.pc = "done", !.resp = "PRODUCT_REQUIRED"]]
     ELSE IF InvalidRating(rating)
     THEN rreq' = [rreq EXCEPT ![v] = [started EXCEPT !.pc = "done", !.resp = "INVALID_RATING"]]
     ELSE rreq' = [rreq EXCEPT ![v] = [started EXCEPT !.pc = "product", !.productId = productId,
                                                      !.rating = rating, !.comment = comment]]
  /\ UNCHANGED <<db, req, tx, reply, stock0, creq, reviews, preq, catalog>>

\* prisma.product.findUnique({where: {id: productId}})
PostReviewsFindProduct(v) ==
  /\ rreq[v].pc = "product"
  /\ IF rreq[v].productId \notin catalog
     THEN DoneRev(v, "NOT_FOUND")
     ELSE rreq' = [rreq EXCEPT ![v].pc = "purchased"]
  /\ UNCHANGED <<db, req, tx, reply, stock0, creq, reviews, preq, catalog>>

\* prisma.orderItem.findFirst({where: {productId, order: {userId, status: 'DELIVERED'}}})
HasPurchasedAnyStatus(userId, productId) ==
  \E i \in 1..Len(orders) :
    /\ orders[i].userId = userId
    /\ \E item \in orders[i].items : item.productId = productId
HasPurchased(userId, productId) ==
  \E i \in 1..Len(orders) :
    /\ orders[i].userId = userId
    /\ orders[i].status = "DELIVERED"
    /\ \E item \in orders[i].items : item.productId = productId

PostReviewsHasPurchased(v) ==
  /\ rreq[v].pc = "purchased"
  /\ IF ~HasPurchased(rreq[v].user, rreq[v].productId)
     THEN DoneRev(v, "FORBIDDEN")
     ELSE rreq' = [rreq EXCEPT ![v].pc = "existing"]
  /\ UNCHANGED <<db, req, tx, reply, stock0, creq, reviews, preq, catalog>>

\* prisma.review.findFirst({where: {userId, productId}}): one of the matching rows
\* (no orderBy), 0 for none
ExistingReviews(userId, productId) ==
  {k \in 1..Len(reviews) : reviews[k].userId = userId /\ reviews[k].productId = productId}

PostReviewsFindExisting(v) ==
  /\ rreq[v].pc = "existing"
  /\ LET found == ExistingReviews(rreq[v].user, rreq[v].productId) IN
     IF found = {}
     THEN rreq' = [rreq EXCEPT ![v].pc = "write", ![v].existing = 0]
     ELSE \E k \in found : rreq' = [rreq EXCEPT ![v].pc = "write", ![v].existing = k]
  /\ UNCHANGED <<db, req, tx, reply, stock0, creq, reviews, preq, catalog>>

\* prisma.review.update({where: {id}, data: {rating, comment}}): an absent comment
\* leaves the stored one
UpdateReview(k, rating, comment) ==
  [reviews EXCEPT ![k].rating = rating.n,
                  ![k].comment = IF comment = NoComment THEN @ ELSE comment]

\* prisma.review.create({data: {userId, productId, rating, comment}})
CreateReview(userId, productId, rating, comment) ==
  Append(reviews, [id |-> Len(reviews) + 1, userId |-> userId, productId |-> productId,
                   rating |-> rating.n,
                   comment |-> IF comment = NoComment THEN "null" ELSE comment])

\* the write: Prisma refuses a rating that is not an Int (the catch answers 500)
PostReviewsWrite(v) ==
  /\ rreq[v].pc = "write"
  /\ IF rreq[v].rating.type # "int"
     THEN DoneRev(v, "INTERNAL") /\ UNCHANGED reviews
     ELSE IF rreq[v].existing # 0
     THEN /\ reviews' = UpdateReview(rreq[v].existing, rreq[v].rating, rreq[v].comment)
          /\ DoneRev(v, "OK")
     ELSE /\ reviews' = CreateReview(rreq[v].user, rreq[v].productId,
                                     rreq[v].rating, rreq[v].comment)
          /\ DoneRev(v, "CREATED")
  /\ UNCHANGED <<db, req, tx, reply, stock0, creq, preq, catalog>>

\* ---- DELETE /api/cart/items/[id] ----------------------------------------------
CartItemIds == {s.id : s \in LineSlots} \cup {"i9"}
CartOwner(cartId) == CHOOSE u \in Users : CartOf(u) = cartId

\* the transactions whose deleteMany holds the row lock of cart line id
CartLineLockedBy(id) == {r \in Reqs : id \in tx[r].del}

\* session check, prisma.cartItem.findUnique({where: {id}, include: {cart}}),
\* 404 and ownership checks
DeleteCartItem(caller, id) ==
  /\ creq.pc = "idle"
  /\ LET found == {ci \in cartItems : ci.id = id} IN
     IF caller = NoSession
     THEN reply' = [op |-> "DELETE_CART_ITEM", caller |-> caller, resp |-> "UNAUTHORIZED"]
          /\ UNCHANGED creq
     ELSE IF found = {}
     THEN reply' = [op |-> "DELETE_CART_ITEM", caller |-> caller, resp |-> "NOT_FOUND"]
          /\ UNCHANGED creq
     ELSE IF \E ci \in found : CartOwner(ci.cartId) # caller
     THEN reply' = [op |-> "DELETE_CART_ITEM", caller |-> caller, resp |-> "UNAUTHORIZED"]
          /\ UNCHANGED creq
     ELSE creq' = [pc |-> "delete", caller |-> caller, id |-> id]
          /\ UNCHANGED reply
  /\ UNCHANGED <<db, req, tx, stock0, rreq, reviews, preq, catalog>>

\* prisma.cartItem.delete({where: {id}}): it throws when the row is gone (500)
\* and waits while a transaction's deleteMany holds the row
DeleteCartItemWrite ==
  /\ creq.pc = "delete"
  /\ IF \A ci \in cartItems : ci.id # creq.id
     THEN reply' = [op |-> "DELETE_CART_ITEM", caller |-> creq.caller, resp |-> "INTERNAL"]
          /\ UNCHANGED cartItems
     ELSE /\ CartLineLockedBy(creq.id) = {}
          /\ cartItems' = {ci \in cartItems : ci.id # creq.id}
          /\ reply' = [op |-> "DELETE_CART_ITEM", caller |-> creq.caller, resp |-> "OK"]
  /\ creq' = NoCartReq
  /\ UNCHANGED <<stock, price, orders, req, tx, stock0, rreq, reviews, preq, catalog>>

\* ---- PATCH /api/cart/items/[id] -----------------------------------------------
\* the quantity of the request body: absent, or an integer n
NoQuantity == [type |-> "undefined", n |-> 0]
QuantityInputs ==
  {NoQuantity} \cup {[type |-> "int", n |-> k] : k \in -1..(MaxStock + 1)}

\* !quantity || quantity < 1
InvalidQuantityMissingOnly(quantity) ==
  quantity.type = "undefined" \/ quantity.n = 0
InvalidQuantity(quantity) ==
  \/ quantity.type = "undefined" \/ quantity.n = 0
  \/ quantity.n < 1

\* cartItem.cart.userId !== session.user.id
NotOwnCartItemNever(caller, ci) == FALSE
NotOwnCartItem(caller, ci) == CartOwner(ci.cartId) # caller

\* session check, body validation, prisma.cartItem.findUnique({where: {id},
\* include: {cart, product}}), 404, ownership and stock checks
PatchCartItem(caller, id, quantity) ==
  /\ creq.pc = "idle"
  /\ LET found == {ci \in cartItems : ci.id = id} IN
     IF caller = NoSession
     THEN reply' = [op |-> "PATCH_CART_ITEM", caller |-> caller, resp |-> "UNAUTHORIZED"]
          /\ UNCHANGED creq
     ELSE IF InvalidQuantity(quantity)
     THEN reply' = [op |-> "PATCH_CART_ITEM", caller |-> caller, resp |-> "INVALID_QUANTITY"]
          /\ UNCHANGED creq
     ELSE IF found = {}
     THEN reply' = [op |-> "PATCH_CART_ITEM", caller |-> caller, resp |-> "NOT_FOUND"]
          /\ UNCHANGED creq
     ELSE IF \E ci \in found : NotOwnCartItem(caller, ci)
     THEN reply' = [op |-> "PATCH_CART_ITEM", caller |-> caller, resp |-> "UNAUTHORIZED"]
          /\ UNCHANGED creq
     ELSE IF \E ci \in found : quantity.n > stock[ci.productId]
     THEN reply' = [op |-> "PATCH_CART_ITEM", caller |-> caller, resp |-> "INSUFFICIENT_STOCK"]
          /\ UNCHANGED creq
     ELSE creq' = [pc |-> "update", caller |-> caller, id |-> id, quantity |-> quantity.n]
          /\ UNCHANGED reply
  /\ UNCHANGED <<db, req, tx, stock0, rreq, reviews, preq, catalog>>

\* prisma.cartItem.update({where: {id}, data: {quantity}}): it throws when the
\* row is gone (500) and waits while a transaction's deleteMany holds the row
PatchCartItemWrite ==
  /\ creq.pc = "update"
  /\ IF \A ci \in cartItems : ci.id # creq.id
     THEN reply' = [op |-> "PATCH_CART_ITEM", caller |-> creq.caller, resp |-> "INTERNAL"]
          /\ UNCHANGED cartItems
     ELSE /\ CartLineLockedBy(creq.id) = {}
          /\ cartItems' = {IF ci.id = creq.id THEN [ci EXCEPT !.quantity = creq.quantity]
                                               ELSE ci : ci \in cartItems}
          /\ reply' = [op |-> "PATCH_CART_ITEM", caller |-> creq.caller, resp |-> "OK"]
  /\ creq' = NoCartReq
  /\ UNCHANGED <<stock, price, orders, req, tx, stock0, rreq, reviews, preq, catalog>>

\* ---- DELETE /api/products/[id] --------------------------------------------------
\* prisma.orderItem.findFirst({where: {productId}})
OrderItemOfProductNever(productId) == FALSE
OrderItemOfProduct(productId) ==
  \E i \in 1..Len(orders) : \E item \in orders[i].items : item.productId = productId

\* the rows that reference the Product row (OrderItem, CartItem, Review: relations
\* without onDelete, so the foreign keys restrict the delete)
ProductReferenced(productId) ==
  \/ \E i \in 1..Len(orders) : \E item \in orders[i].items : item.productId = productId
  \/ \E ci \in cartItems : ci.productId = productId
  \/ \E k \in 1..Len(reviews) : reviews[k].productId = productId

\* the transactions that have inserted an OrderItem of the product and not yet
\* committed: the insert holds the Product row against a delete
ProductHeldBy(productId) ==
  {r \in Reqs : \E i \in 1..Len(tx[r].order) :
                  \E item \in tx[r].order[i].items : item.productId = productId}

\* session, role, prisma.product.findUnique({where: {id}})
DeleteProduct(caller, productId) ==
  /\ preq.pc = "idle"
  /\ IF caller = NoSession
     THEN reply' = [op |-> "DELETE_PRODUCT", caller |-> caller, resp |-> "UNAUTHORIZED"]
          /\ UNCHANGED preq
     ELSE IF UserRole(caller) # "MANAGER" /\ UserRole(caller) # "ADMIN"
     THEN reply' = [op |-> "DELETE_PRODUCT", caller |-> caller, resp |-> "FORBIDDEN"]
          /\ UNCHANGED preq
     ELSE IF productId \notin catalog
     THEN reply' = [op |-> "DELETE_PRODUCT", caller |-> caller, resp |-> "NOT_FOUND"]
          /\ UNCHANGED preq
     ELSE preq' = [pc |-> "orders", caller |-> caller, productId |-> productId]
          /\ UNCHANGED reply
  /\ UNCHANGED <<db, req, tx, stock0, creq, rreq, reviews, catalog>>

\* if (orderItems) return 400
DeleteProductCheckOrders ==
  /\ preq.pc = "orders"
  /\ IF OrderItemOfProduct(preq.productId)
     THEN reply' = [op |-> "DELETE_PRODUCT", caller |-> preq.caller, resp |-> "HAS_ORDERS"]
          /\ preq' = NoProductReq
     ELSE preq' = [preq EXCEPT !.pc = "delete"]
          /\ UNCHANGED reply
  /\ UNCHANGED <<db, req, tx, stock0, creq, rreq, reviews, catalog>>

\* prisma.product.delete({where: {id}}): it waits for a transaction that holds
\* the row, and throws (500) when the row is gone or still referenced
DeleteProductWrite ==
  /\ preq.pc = "delete"
  /\ IF preq.productId \notin catalog
     THEN reply' = [op |-> "DELETE_PRODUCT", caller |-> preq.caller, resp |-> "INTERNAL"]
          /\ UNCHANGED catalog
     ELSE /\ ProductHeldBy(preq.productId) = {}
          /\ IF ProductReferenced(preq.productId)
             THEN reply' = [op |-> "DELETE_PRODUCT", caller |-> preq.caller, resp |-> "INTERNAL"]
                  /\ UNCHANGED catalog
             ELSE reply' = [op |-> "DELETE_PRODUCT", caller |-> preq.caller, resp |-> "OK"]
                  /\ catalog' = catalog \ {preq.productId}
  /\ preq' = NoProductReq
  /\ UNCHANGED <<db, req, tx, stock0, creq, rreq, reviews>>

\* checkouts only: no staff edits
NextCheckout == \E r \in Reqs : Checkout(r)
SpecCheckout == Init /\ [][NextCheckout]_vars

\* checkouts, staff product edits and staff status updates
StaffEdit ==
  \/ \E productId \in {"p1"}, newPrice \in 1..MaxPrice, newStock \in 0..MaxStock :
        PutProduct("m1", productId, FALSE, newPrice, newStock)
  \/ \E orderId \in OrderIds, status \in validStatuses :
        PatchOrder("m1", orderId, status)

CheckoutStaff(r) ==
  \/ \E caller \in {"u1","u2"}, addressId \in {"a1","a2"} : PostOrders(r, caller, addressId)
  \/ PostOrdersReadCart(r)
  \/ PostOrdersCheckStock(r)
  \/ TxCreateOrder(r)
  \/ TxUpdateStock(r)
  \/ TxClearCart(r)
  \/ TxCommit(r)
  \/ TxFail(r)

InitStaff ==
  /\ stock = [p \in Products |-> MaxStock]
  /\ price = InitPrice
  /\ cartItems = { [id |-> s.id, cartId |-> s.cartId, productId |-> s.productId,
                    quantity |-> IF s.id = "i1" THEN MaxQty ELSE 1] : s \in LineSlots }
  /\ orders = <<>>
  /\ req = [r \in Reqs |-> IdleReq]
  /\ tx = [r \in Reqs |-> NoTx]
  /\ reply = NoReply
  /\ stock0 = stock
  /\ NoOtherRequests

NextStaff == (\E r \in Reqs : CheckoutStaff(r)) \/ StaffEdit
SpecStaff == InitStaff /\ [][NextStaff]_vars

\* checkouts while cart lines are removed
RemoveLine ==
  \/ \E caller \in {"u1", "u2", NoSession}, id \in CartItemIds : DeleteCartItem(caller, id)
  \/ DeleteCartItemWrite
NextCart == (\E r \in Reqs : CheckoutStaff(r)) \/ RemoveLine
SpecCart == InitStaff /\ [][NextCart]_vars

\* checkouts and status updates by every kind of caller
AllCallers == Callers \cup {Admin}
Staff == {u \in AllCallers \ {NoSession} : UserRole(u) \in {"MANAGER", "ADMIN"}}
Customers == {u \in AllCallers \ {NoSession} : UserRole(u) = "CUSTOMER"}
NextStatus ==
  \/ \E r \in Reqs : CheckoutStaff(r)
  \/ \E caller \in AllCallers, orderId \in OrderIds, status \in StatusInputs :
        PatchOrder(caller, orderId, status)
SpecStatus == InitStaff /\ [][NextStatus]_vars

\* checkouts, status updates by a manager, and reads of the orders by every caller
ReadOrders ==
  \/ \E caller \in AllCallers : GetOrders(caller)
  \/ \E caller \in AllCallers, orderId \in OrderIds : GetOrder(caller, orderId)
NextRead ==
  \/ \E r \in Reqs : CheckoutStaff(r)
  \/ \E orderId \in OrderIds : PatchOrder("m1", orderId, "DELIVERED")
  \/ ReadOrders
SpecRead == InitStaff /\ [][NextRead]_vars

\* checkouts with the caller's own address, deliveries, and review submissions
CheckoutOwn(r) ==
  \/ \E caller \in Customers : \E addressId \in {a \in Addresses : AddressOwner(a) = caller} :
        PostOrders(r, caller, addressId)
  \/ PostOrdersReadCart(r)
  \/ PostOrdersCheckStock(r)
  \/ TxCreateOrder(r)
  \/ TxUpdateStock(r)
  \/ TxClearCart(r)
  \/ TxCommit(r)
  \/ TxFail(r)

Review(v) ==
  \/ \E caller \in Callers, productId \in ProductIds \cup {""},
        rating \in RatingInputs, comment \in CommentInputs :
        PostReviews(v, caller, productId, rating, comment)
  \/ PostReviewsFindProduct(v)
  \/ PostReviewsHasPurchased(v)
  \/ PostReviewsFindExisting(v)
  \/ PostReviewsWrite(v)

NextReview ==
  \/ CheckoutOwn("r1")
  \/ \E orderId \in OrderIds, status \in {"DELIVERED", "CANCELLED"} :
        PatchOrder("m1", orderId, status)
  \/ Review("v1")
SpecReview == InitStaff /\ [][NextReview]_vars

\* two review submissions in flight at once
ReviewOwn(v) ==
  \/ \E caller \in Customers, productId \in {"p1"}, comment \in CommentInputs,
        rating \in {x \in RatingInputs : ~InvalidRating(x) /\ x.type = "int"} :
        PostReviews(v, caller, productId, rating, comment)
  \/ PostReviewsFindProduct(v)
  \/ PostReviewsHasPurchased(v)
  \/ PostReviewsFindExisting(v)
  \/ PostReviewsWrite(v)

NextReviewRace ==
  \/ CheckoutOwn("r1")
  \/ \E orderId \in OrderIds : PatchOrder("m1", orderId, "DELIVERED")
  \/ \E v \in RevReqs : ReviewOwn(v)
SpecReviewRace == InitStaff /\ [][NextReviewRace]_vars

\* one checkout while every caller edits cart lines
EditLine ==
  \/ \E caller \in {"u1", "u2", NoSession}, id \in {"i1", "i3", "i9"},
        quantity \in QuantityInputs :
        PatchCartItem(caller, id, quantity)
  \/ PatchCartItemWrite
  \/ \E caller \in {"u1", "u2", NoSession}, id \in CartItemIds : DeleteCartItem(caller, id)
  \/ DeleteCartItemWrite
NextCartEdit == CheckoutOwn("r1") \/ EditLine
SpecCartEdit == InitStaff /\ [][NextCartEdit]_vars

\* one checkout while the owner removes cart lines and staff delete products
DeleteProducts ==
  \/ \E caller \in AllCallers, productId \in ProductIds : DeleteProduct(caller, productId)
  \/ DeleteProductCheckOrders
  \/ DeleteProductWrite
RemoveOwnLine ==
  \/ \E s \in LineSlots : DeleteCartItem(CartOwner(s.cartId), s.id)
  \/ DeleteCartItemWrite
NextCatalog == CheckoutOwn("r1") \/ RemoveOwnLine \/ DeleteProducts
SpecCatalog == InitStaff /\ [][NextCatalog]_vars

\* product updates by every caller, with every value of the request body
NextProductEdit ==
  \E caller \in AllCallers, productId \in ProductIds, missing \in BOOLEAN,
     newPrice \in -1..MaxPrice, newStock \in -1..MaxStock :
     PutProduct(caller, productId, missing, newPrice, newStock)
SpecProductEdit == InitStaff /\ [][NextProductEdit]_vars

\* ---- helpers of the properties ---------------------------------------------
\* the step is one of request r
StepOf(r) == req'[r] # req[r]

\* the quantity of product p over a set of order items
RECURSIVE OrderedQty(_, _)
OrderedQty(its, p) ==
  IF its = {} THEN 0
  ELSE LET it == CHOOSE i \in its : TRUE
       IN  (IF it.productId = p THEN it.quantity ELSE 0) + OrderedQty(its \ {it}, p)

\* the sum of quantity x price over a set of order items
RECURSIVE SumLines(_)
SumLines(its) ==
  IF its = {} THEN 0
  ELSE LET it == CHOOSE i \in its : TRUE
       IN  it.quantity * it.price + SumLines(its \ {it})

LinesOfUser(u) == {ci \in cartItems : ci.cartId = CartOf(u)}
OrdersOfUser(u) == {i \in 1..Len(orders) : orders[i].userId = u}

\* ---- C1 ------------------------------------------------------------------------
\* C1: with no staff product edits and non-negative stock at the start, every
\* product's stock is >= 0 in every reachable state, whatever the interleaving
\* of the checkouts' steps.
C1_StockNeverNegative == \A p \in Products : stock[p] >= 0

\* ---- C2 ------------------------------------------------------------------------
\* C2: two orders of different users never both contain a product whose two
\* ordered quantities together exceed the stock the product had: of two such
\* checkouts at most one succeeds.
C2_AtMostOneWins ==
  \A i, j \in 1..Len(orders) :
    (i < j /\ orders[i].userId # orders[j].userId) =>
      \A p \in Products :
        (OrderedQty(orders[i].items, p) > 0 /\ OrderedQty(orders[j].items, p) > 0) =>
          OrderedQty(orders[i].items, p) + OrderedQty(orders[j].items, p) <= stock0[p]

\* ---- C3 ------------------------------------------------------------------------
\* C3: two checkouts of the same user never create two orders from the same
\* cart lines, and never drive the stock of a product below zero.
C3_OneOrderPerCartState ==
  \A i, j \in 1..Len(orders) :
    (i < j /\ orders[i].userId = orders[j].userId) =>
      /\ {it.line : it \in orders[i].items} \cap {it.line : it \in orders[j].items} = {}
      /\ \A p \in Products : stock[p] >= 0

\* ---- C4 ------------------------------------------------------------------------
\* C4: the step in which a checkout's stock check meets a line whose quantity
\* exceeds the stock it read answers INSUFFICIENT_STOCK (400) and leaves the
\* store as it is: no order, no order item, no decrement, no cart line removed,
\* and no write pending; a finished request takes no further step.
C4_FailedValidationChangesNothing ==
  [][\A r \in Reqs :
       /\ (/\ StepOf(r)
           /\ req[r].pc = "check"
           /\ \E item \in req[r].items : item.quantity > item.product.stock)
          => /\ req'[r].pc = "done"
             /\ req'[r].resp = "INSUFFICIENT_STOCK"
             /\ HttpStatus(req'[r].resp) = 400
             /\ tx[r] = NoTx /\ tx'[r] = NoTx
             /\ UNCHANGED db
       /\ req[r].pc = "done" => ~StepOf(r)]_vars

\* a checkout was refused for one line while another line of the cart passes
C4_Witness ==
  \E r \in Reqs :
    /\ req[r].resp = "INSUFFICIENT_STOCK"
    /\ orders = <<>>
    /\ \E a, b \in LinesOfUser(req[r].user) :
         a.quantity <= stock[a.productId] /\ b.quantity > stock[b.productId]

\* ---- C5 ------------------------------------------------------------------------
\* C5: the committed store changes in one step only, the commit: that step adds
\* the order, applies every decrement of its items and removes the cart's
\* lines together; every other step of a checkout, a failing statement of the
\* transaction included, leaves the committed store unchanged, and a failure
\* inside the transaction answers INTERNAL (500) and drops the pending writes.
C5_CheckoutAtomic ==
  [][\A r \in Reqs : StepOf(r) =>
       IF req[r].pc = "commit" /\ req'[r].resp = "CREATED"
       THEN /\ Len(orders') = Len(orders) + 1
            /\ SubSeq(orders', 1, Len(orders)) = orders
            /\ {it.line : it \in orders'[Len(orders')].items}
                 = {item.id : item \in req[r].items}
            /\ \A p \in Products :
                 stock'[p] = stock[p] - OrderedQty(orders'[Len(orders')].items, p)
            /\ {ci \in cartItems' : ci.cartId = req[r].cart} = {}
       ELSE /\ UNCHANGED db
            /\ (req[r].pc \in TxPcs /\ req'[r].pc = "done")
                 => /\ req'[r].resp = "INTERNAL"
                    /\ HttpStatus(req'[r].resp) = 500
                    /\ tx'[r] = NoTx]_vars

\* one transaction failed and left nothing, another one committed
C5_Witness ==
  \E r1, r2 \in Reqs :
    /\ req[r1].resp = "INTERNAL"
    /\ req[r2].resp = "CREATED"
    /\ Len(orders) = 1
    /\ \A p \in Products : stock[p] = stock0[p] - OrderedQty(orders[1].items, p)

\* ---- C6 ------------------------------------------------------------------------
\* C6: the step that answers 201 to user u adds exactly one order: u's, PENDING,
\* with the address given, which u owns, and with one item per cart line the
\* checkout read, of that line's product and quantity; each product's stock
\* falls by exactly the quantity ordered of it (so by nothing for the others),
\* and u's cart has no line left.
C6_SuccessfulCheckout ==
  [][\A r \in Reqs :
       (req'[r].resp = "CREATED" /\ req[r].resp # "CREATED") =>
         /\ HttpStatus(req'[r].resp) = 201
         /\ Len(orders') = Len(orders) + 1
         /\ SubSeq(orders', 1, Len(orders)) = orders
         /\ LET o == orders'[Len(orders')] IN
              /\ o.userId = req[r].user
              /\ o.status = "PENDING"
              /\ o.addressId = req[r].addressId
              /\ o.addressId \in Addresses /\ AddressOwner(o.addressId) = o.userId
              /\ {[line |-> it.line, productId |-> it.productId, quantity |-> it.quantity]
                    : it \in o.items}
                 = {[line |-> item.id, productId |-> item.productId,
                     quantity |-> item.quantity] : item \in req[r].items}
              /\ Cardinality(o.items) = Cardinality(req[r].items)
              /\ \A p \in Products : stock'[p] = stock[p] - OrderedQty(o.items, p)
              /\ \A p \in Products :
                   OrderedQty(o.items, p) = 0 => stock'[p] = stock[p]
         /\ LinesOfUser(req[r].user)' = {}]_vars

\* an order of two lines, one of them of more than one unit
C6_Witness ==
  \E r \in Reqs :
    /\ req[r].resp = "CREATED"
    /\ Len(orders) = 1
    /\ Cardinality(orders[1].items) = 2
    /\ \E it \in orders[1].items : it.quantity > 1
    /\ LinesOfUser(req[r].user) = {}

\* ---- C7 ------------------------------------------------------------------------
\* C7: the price of every item of an order is the product's price at the step
\* that creates the order (the commit), and no later step changes the items of
\* an order.
C7_PriceAtCreation ==
  [][/\ Len(orders') > Len(orders) =>
          \A it \in orders'[Len(orders')].items : it.price = price'[it.productId]
     /\ \A i \in 1..Len(orders) :
          Len(orders') >= Len(orders) /\ orders'[i].items = orders[i].items]_vars

\* ---- C8 ------------------------------------------------------------------------
\* C8: the total of every order is the sum of quantity x price over its items,
\* in every state, and no step (a status update, a price or stock update,
\* another checkout) changes the id, total, items, owner, address or createdAt
\* of an order that exists: only its status may change.
C8_OrderFrozen ==
  /\ [](\A i \in 1..Len(orders) : orders[i].total = SumLines(orders[i].items))
  /\ [][\A i \in 1..Len(orders) :
          /\ Len(orders') >= Len(orders)
          /\ orders'[i] = [orders[i] EXCEPT !.status = orders'[i].status]]_vars

\* two orders; one has left PENDING, and an item holds a price that is no longer
\* the product's, and the stock was edited
C8_Witness ==
  /\ Len(orders) = 2
  /\ \E i \in 1..Len(orders) :
       /\ orders[i].status = "DELIVERED"
       /\ \E it \in orders[i].items :
            it.price # price[it.productId] /\ it.quantity > 1
       /\ orders[i].total = SumLines(orders[i].items)
  /\ reply.op = "PUT_PRODUCT"

C10_InvalidAddress ==
  /\ [](\A r \in Reqs :
          (/\ req[r].pc = "done"
           /\ req[r].user \in Users
           /\ req[r].addressId # NoAddress
           /\ (req[r].addressId \notin Addresses
               \/ AddressOwner(req[r].addressId) # req[r].user))
          => req[r].resp = "INVALID_ADDRESS" /\ HttpStatus(req[r].resp) = 400)
  /\ [](\A i \in 1..Len(orders) :
          /\ orders[i].addressId \in Addresses
          /\ AddressOwner(orders[i].addressId) = orders[i].userId)
  /\ [][\A r \in Reqs :
          /\ (StepOf(r) /\ req'[r].resp = "INVALID_ADDRESS")
             => /\ UNCHANGED db
                /\ tx[r] = NoTx /\ tx'[r] = NoTx
          /\ req[r].pc = "done" => ~StepOf(r)]_vars

\* a caller whose cart could be ordered was refused for another user's address,
\* and a caller was refused for an address that does not exist
C10_Witness ==
  \E r1, r2 \in Reqs :
    /\ req[r1].resp = "INVALID_ADDRESS"
    /\ req[r1].addressId \in Addresses
    /\ LinesOfUser(req[r1].user) # {}
    /\ \A ci \in LinesOfUser(req[r1].user) : ci.quantity <= stock[ci.productId]
    /\ req[r2].resp = "INVALID_ADDRESS"
    /\ req[r2].addressId \notin Addresses
    /\ orders = <<>>

\* ---- C11 -----------------------------------------------------------------------
\* C11: every order, committed or still inside its transaction, has at least one
\* order item, also when the owner removes cart lines or runs a second checkout
\* while the checkout that creates the order is in flight.
C11_OrderHasItems ==
  /\ \A i \in 1..Len(orders) : orders[i].items # {}
  /\ \A r \in Reqs : \A i \in 1..Len(tx[r].order) : tx[r].order[i].items # {}

\* two checkouts of u1 both committed an order with both lines, and u1 removed
\* one of these lines after the checkouts had read the cart
C11_Witness ==
  /\ Len(orders) = 2
  /\ \A i \in 1..2 : orders[i].userId = "u1" /\ Cardinality(orders[i].items) = 2
  /\ reply = [op |-> "DELETE_CART_ITEM", caller |-> "u1", resp |-> "OK"]

\* ---- C12 -----------------------------------------------------------------------
\* C12: the status of an order changes only in a step that is a status update
\* answered OK to a caller whose role is MANAGER or ADMIN; a status update by a
\* CUSTOMER, whatever the order id (the caller's own order included) and the
\* target status, is answered FORBIDDEN (403) and leaves every order unchanged.
\* (a step of PATCH /api/orders/[id]: no checkout moves and the response is the handler's)
PatchStep == req' = req /\ tx' = tx /\ reply'.op = "PATCH_ORDER"
C12_OnlyStaffChangeStatus ==
  /\ [][ (\E i \in 1..Len(orders) : orders'[i].status # orders[i].status)
          => /\ PatchStep
             /\ reply'.resp = "OK"
             /\ reply'.caller \in Staff ]_vars
  /\ [][ PatchStep /\ reply'.caller \in Customers
          => /\ reply'.resp = "FORBIDDEN"
             /\ HttpStatus(reply'.resp) = 403
             /\ orders' = orders ]_vars

\* u1 has an order and was just refused a status update
C12_Witness ==
  /\ \E i \in 1..Len(orders) : orders[i].userId = "u1"
  /\ reply = [op |-> "PATCH_ORDER", caller |-> "u1", resp |-> "FORBIDDEN"]

\* ---- C13 -----------------------------------------------------------------------
\* C13: a status update by a MANAGER or ADMIN whose target is missing or is not
\* one of the five statuses is answered INVALID_STATUS (400); one with a
\* recognized target for an order id that does not exist is answered NOT_FOUND
\* (404); neither modifies an order, and the status of every order is always
\* one of the five values of the enum.
C13_InvalidStatusOrMissingOrder ==
  /\ [][ \A caller \in Staff, orderId \in OrderIds, status \in StatusInputs :
            reply'.caller = caller /\ PatchOrder(caller, orderId, status)
            => /\ status \notin OrderStatus
                    => /\ reply'.resp = "INVALID_STATUS"
                       /\ HttpStatus(reply'.resp) = 400
                       /\ orders' = orders
               /\ status \in OrderStatus /\ orderId \notin 1..Len(orders)
                    => /\ reply'.resp = "NOT_FOUND"
                       /\ HttpStatus(reply'.resp) = 404
                       /\ orders' = orders ]_vars
  /\ [](\A i \in 1..Len(orders) : orders[i].status \in OrderStatus)

\* an order has left PENDING and the administrator's update was refused as invalid
C13_Witness ==
  /\ \E i \in 1..Len(orders) : orders[i].status = "SHIPPED"
  /\ reply = [op |-> "PATCH_ORDER", caller |-> Admin, resp |-> "INVALID_STATUS"]

\* ---- C14 -----------------------------------------------------------------------
\* C14: DELIVERED and CANCELLED are terminal: once the status of an order is
\* DELIVERED or CANCELLED, no step changes the status of that order.
C14_TerminalStatus ==
  [][ \A i \in 1..Len(orders) :
        orders[i].status \in {"DELIVERED", "CANCELLED"}
        => orders'[i].status = orders[i].status ]_vars

\* ---- C15 -----------------------------------------------------------------------
\* C15: no transition-adjacency check: for every existing order, whatever its
\* current status (DELIVERED and CANCELLED included), and every recognized
\* target t (the current status included), a status update to t by a MANAGER or
\* ADMIN is possible, is answered OK and leaves the order with status t.
C15_AnyToAny ==
  /\ [][ \A caller \in Staff, orderId \in 1..Len(orders), t \in OrderStatus :
            reply'.caller = caller /\ PatchOrder(caller, orderId, t)
            => /\ reply'.resp = "OK"
               /\ HttpStatus(reply'.resp) = 200
               /\ orders'[orderId].status = t ]_vars
  /\ [](\A caller \in Staff, orderId \in 1..Len(orders), t \in OrderStatus :
          ENABLED (PatchOrder(caller, orderId, t) /\ orders'[orderId].status = t))

\* both orders exist, a manager's update was answered OK, the first order is
\* CANCELLED and the second is PENDING (again)
C15_Witness ==
  /\ Len(orders) = 2
  /\ orders[1].status = "CANCELLED"
  /\ orders[2].status = "PENDING"
  /\ reply = [op |-> "PATCH_ORDER", caller |-> "m1", resp |-> "OK"]

\* ---- C16 -----------------------------------------------------------------------
\* C16: GET /orders answers a CUSTOMER with exactly the orders whose userId is
\* the caller's id, each once and none of another user, and answers a MANAGER or
\* ADMIN with every order of the store.
SeqRange(seq) == {seq[k] : k \in 1..Len(seq)}
C16_OrdersScopedByRole ==
  [][ \A caller \in AllCallers \ {NoSession} :
        reply'.caller = caller /\ GetOrders(caller)
        => /\ reply'.resp = "OK"
           /\ Cardinality(SeqRange(reply'.body)) = Len(reply'.body)
           /\ caller \in Customers
                => SeqRange(reply'.body) = {o \in SeqRange(orders) : o.userId = caller}
           /\ caller \in Staff => SeqRange(reply'.body) = SeqRange(orders) ]_vars

\* u1 and u2 each have an order, and u2 was just answered with one order
C16_Witness ==
  /\ {orders[i].userId : i \in 1..Len(orders)} = {"u1", "u2"}
  /\ reply.op = "GET_ORDERS" /\ reply.caller = "u2" /\ reply.resp = "OK"
  /\ Len(reply.body) = 1 /\ reply.body[1].userId = "u2"

\* ---- C17 -----------------------------------------------------------------------
\* C17: GET /orders/{id} answers 200 with the order only to the order's owner or
\* to a MANAGER or ADMIN; a CUSTOMER who asks for an existing order of another
\* user is answered FORBIDDEN (403), and every authenticated caller who asks for
\* an id that does not exist is answered NOT_FOUND (404).
C17_OrderReadByOwnerOrStaff ==
  [][ \A caller \in AllCallers \ {NoSession}, orderId \in OrderIds :
        reply'.caller = caller /\ GetOrder(caller, orderId)
        => IF orderId \notin 1..Len(orders)
           THEN reply'.resp = "NOT_FOUND" /\ HttpStatus(reply'.resp) = 404
                /\ reply'.body = <<>>
           ELSE IF caller \in Staff \/ orders[orderId].userId = caller
           THEN reply'.resp = "OK" /\ HttpStatus(reply'.resp) = 200
                /\ reply'.body = <<orders[orderId]>>
           ELSE reply'.resp = "FORBIDDEN" /\ HttpStatus(reply'.resp) = 403
                /\ reply'.body = <<>> ]_vars

\* u1 asked for an order of u2 and was refused
C17_Witness ==
  /\ \E i \in 1..Len(orders) : orders[i].userId = "u2"
  /\ \A i \in 1..Len(orders) : orders[i].userId # "u1"
  /\ reply.op = "GET_ORDER" /\ reply.caller = "u1" /\ reply.resp = "FORBIDDEN"

\* ---- C18 -----------------------------------------------------------------------
\* C18: a review submission with a valid rating for an existing product p by
\* caller u is accepted if and only if the role of u is CUSTOMER and, when the
\* handler looks for the purchase, some order owned by u with status DELIVERED
\* contains an item for p.  A submission by another role is answered FORBIDDEN
\* (403) at once; a submission without such an order is answered FORBIDDEN (403)
\* by the purchase check; once past that check (as soon as staff have set the
\* order to DELIVERED) the submission ends with the review stored, 200 or 201.
\* A refused submission creates or changes no review, and reviews change in no
\* other step.
DeliveredOrderWith(u, p) ==
  \E o \in SeqRange(orders) :
    o.userId = u /\ o.status = "DELIVERED" /\ p \in {it.productId : it \in o.items}
RevStepOf(v) == rreq'[v] # rreq[v]
ValidRating(rating) == rating.type = "int" /\ rating.n \in 1..5
C18_ReviewNeedsDeliveredOrder ==
  /\ [][ \A v \in RevReqs :
            RevStepOf(v) /\ rreq[v].pc \in {"idle", "done"}
            /\ rreq'[v].user \in Users /\ UserRole(rreq'[v].user) # "CUSTOMER"
            => /\ rreq'[v].pc = "done" /\ rreq'[v].resp = "FORBIDDEN"
               /\ HttpStatus(rreq'[v].resp) = 403
               /\ reviews' = reviews ]_vars
  /\ [][ \A v \in RevReqs :
            RevStepOf(v) /\ rreq[v].pc = "purchased"
            => /\ reviews' = reviews
               /\ IF DeliveredOrderWith(rreq[v].user, rreq[v].productId)
                  THEN rreq'[v].pc = "existing"
                  ELSE rreq'[v].pc = "done" /\ rreq'[v].resp = "FORBIDDEN"
                       /\ HttpStatus(rreq'[v].resp) = 403 ]_vars
  /\ [][ \A v \in RevReqs :
            RevStepOf(v) /\ rreq[v].pc = "existing"
            => rreq'[v].pc = "write" /\ reviews' = reviews ]_vars
  /\ [][ \A v \in RevReqs :
            RevStepOf(v) /\ rreq[v].pc = "write" /\ ValidRating(rreq[v].rating)
            => /\ rreq'[v].pc = "done" /\ rreq'[v].resp \in {"OK", "CREATED"}
               /\ \E w \in SeqRange(reviews') :
                    /\ w.userId = rreq[v].user /\ w.productId = rreq[v].productId
                    /\ w.rating = rreq[v].rating.n ]_vars
  /\ [][ reviews' # reviews
          => \E v \in RevReqs :
               /\ RevStepOf(v) /\ rreq[v].pc = "write"
               /\ UserRole(rreq[v].user) = "CUSTOMER"
               /\ rreq'[v].resp \in {"OK", "CREATED"} ]_vars
  /\ [](\A v \in RevReqs :
          rreq[v].pc \in {"product", "purchased", "existing", "write"}
          => UserRole(rreq[v].user) = "CUSTOMER" /\ rreq[v].user \in Users)

\* the order of u1 is DELIVERED and the review of u1 for p2 has just been created
C18_Witness ==
  /\ \E o \in SeqRange(orders) : o.userId = "u1" /\ o.status = "DELIVERED"
  /\ \E w \in SeqRange(reviews) : w.userId = "u1" /\ w.productId = "p2"
  /\ rreq["v1"].pc = "done" /\ rreq["v1"].user = "u1" /\ rreq["v1"].resp = "CREATED"

\* ---- C19 -----------------------------------------------------------------------
\* the ratings of the claim: missing, or a number outside the range 1..5
OutOfRange(rating) ==
  \/ rating.type = "undefined"
  \/ rating.n < 1
  \/ rating.n > 5 \/ (rating.type = "half" /\ rating.n = 5)
\* (a step of POST /api/reviews that starts request v for this caller)
SubmitsBy(v, caller) ==
  RevStepOf(v) /\ rreq[v].pc \in {"idle", "done"} /\ rreq'[v].user = caller
Rejected(v, resp) ==
  rreq'[v].pc = "done" /\ rreq'[v].resp = resp /\ reviews' = reviews

\* C19 (as stated): every review submission whose rating is missing or outside
\* 1..5 is answered INVALID_RATING (400) and creates or changes no review; every
\* stored rating is within 1..5.
C19_InvalidRatingRejected ==
  /\ [][ \A v \in RevReqs, caller \in Callers :
            SubmitsBy(v, caller)
            => \A productId \in ProductIds \cup {""},
                  rating \in {x \in RatingInputs : OutOfRange(x)} :
                 (\E comment \in CommentInputs :
                     PostReviews(v, caller, productId, rating, comment))
                 => Rejected(v, "INVALID_RATING") /\ HttpStatus(rreq'[v].resp) = 400 ]_vars
  /\ [](\A w \in SeqRange(reviews) : w.rating \in 1..5)

\* C19 (amended): a review submission by a CUSTOMER that names a product and
\* whose rating is missing or outside 1..5 is answered INVALID_RATING (400) and
\* creates or changes no review; every stored rating is within 1..5.
C19_InvalidRatingByCustomer ==
  /\ [][ \A v \in RevReqs, caller \in Customers :
            SubmitsBy(v, caller) /\ rreq'[v].pc = "done"
            => \A productId \in ProductIds,
                  rating \in {x \in RatingInputs : OutOfRange(x)} :
                 (\E comment \in CommentInputs :
                     PostReviews(v, caller, productId, rating, comment))
                 => Rejected(v, "INVALID_RATING") /\ HttpStatus(rreq'[v].resp) = 400 ]_vars
  /\ [][ \A v \in RevReqs, caller \in Customers :
            SubmitsBy(v, caller) /\ rreq'[v].pc # "done"
            => ~ OutOfRange(rreq'[v].rating) ]_vars
  /\ [](\A w \in SeqRange(reviews) : w.rating \in 1..5)

\* u1, who holds a review for p1, was just refused for an invalid rating
C19_Witness ==
  /\ \E w \in SeqRange(reviews) : w.userId = "u1" /\ w.productId = "p1"
  /\ rreq["v1"].pc = "done" /\ rreq["v1"].user = "u1"
  /\ rreq["v1"].resp = "INVALID_RATING"

\* ---- C20 -----------------------------------------------------------------------
\* C20: there is at most one review per (user, product) pair in every reachable
\* state, also when submissions of one user for one product interleave; a
\* submission by a user who already has a review for the product changes the
\* rating and the comment of that review and leaves the number of reviews of the
\* product unchanged.
ReviewsOf(revs, u, p) == {k \in 1..Len(revs) : revs[k].userId = u /\ revs[k].productId = p}
C20_OneReviewPerPair ==
  /\ [](\A u \in Users, p \in Products : Cardinality(ReviewsOf(reviews, u, p)) <= 1)
  /\ [][ \A v \in RevReqs :
            /\ RevStepOf(v) /\ rreq[v].pc = "write"
            /\ ReviewsOf(reviews, rreq[v].user, rreq[v].productId) # {}
            => /\ Len(reviews') = Len(reviews)
               /\ \A k \in ReviewsOf(reviews', rreq[v].user, rreq[v].productId) :
                    reviews'[k].rating = rreq[v].rating.n ]_vars

\* ---- C21 -----------------------------------------------------------------------
\* C21: update-quantity and remove-line change or remove a cart line only when
\* the line belongs to the caller's own cart, and then no other line; a request
\* that names a line of another user's cart or a line that does not exist (404)
\* starts no write and leaves every cart unchanged.
\* (a step of a cart-line handler: the checkout does not move)
CartLineStep == req' = req /\ tx' = tx
LineOf(id) == {ci \in cartItems : ci.id = id}
C21_OnlyOwnLineChanged ==
  /\ [][ CartLineStep /\ cartItems' # cartItems
          => /\ creq.pc \in {"update", "delete"}
             /\ \E ci \in LineOf(creq.id) : CartOwner(ci.cartId) = creq.caller
             /\ \A ci \in cartItems : ci.id # creq.id => ci \in cartItems'
             /\ \A ci \in cartItems' : ci.id # creq.id => ci \in cartItems ]_vars
  /\ [][ CartLineStep /\ creq.pc = "idle" /\ creq'.pc # "idle"
          => \E ci \in LineOf(creq'.id) : CartOwner(ci.cartId) = creq'.caller ]_vars
  /\ [][ CartLineStep /\ creq.pc = "idle" /\ creq' = creq /\ reply'.caller \in Users
          => \A id \in {i \in CartItemIds :
                          \A ci \in LineOf(i) : CartOwner(ci.cartId) # reply'.caller} :
               /\ reply'.op = "DELETE_CART_ITEM" /\ DeleteCartItem(reply'.caller, id)
                  => /\ cartItems' = cartItems
                     /\ LineOf(id) = {}
                          => reply'.resp = "NOT_FOUND" /\ HttpStatus(reply'.resp) = 404
               /\ \A quantity \in QuantityInputs :
                    reply'.op = "PATCH_CART_ITEM"
                    /\ PatchCartItem(reply'.caller, id, quantity)
                    => /\ cartItems' = cartItems
                       /\ LineOf(id) = {} /\ quantity.type = "int" /\ quantity.n >= 1
                            => reply'.resp = "NOT_FOUND" /\ HttpStatus(reply'.resp) = 404 ]_vars

\* u2 has raised the quantity of the own line i3, and u2 was refused on a line
\* of u1's cart
C21_Witness ==
  /\ \E ci \in LineOf("i3") : ci.quantity = MaxQty
  /\ \A s \in LineSlots : LineOf(s.id) # {}
  /\ reply = [op |-> "DELETE_CART_ITEM", caller |-> "u2", resp |-> "UNAUTHORIZED"]

\* ---- C22 -----------------------------------------------------------------------
\* C22: the product of every order item exists in the catalog in every reachable
\* state, also when a delete interleaves with a checkout that orders the
\* product; a product leaves the catalog only by a staff DELETE answered OK while
\* no order item references it; a DELETE that finds an order item of the
\* product is answered 400 and the product remains.
OrderedProducts == UNION {{it.productId : it \in o.items} : o \in SeqRange(orders)}
C22_OrderedProductsRemain ==
  /\ [](OrderedProducts \subseteq catalog)
  /\ [][ catalog' # catalog
          => /\ preq.pc = "delete"
             /\ catalog' = catalog \ {preq.productId}
             /\ preq.productId \notin OrderedProducts
             /\ preq.caller \in Staff
             /\ reply' = [op |-> "DELETE_PRODUCT", caller |-> preq.caller, resp |-> "OK"] ]_vars
  /\ [][ preq.pc = "orders" /\ preq' # preq /\ preq.productId \in OrderedProducts
          => /\ reply' = [op |-> "DELETE_PRODUCT", caller |-> preq.caller,
                          resp |-> "HAS_ORDERS"]
             /\ HttpStatus(reply'.resp) = 400
             /\ preq'.pc = "idle"
             /\ catalog' = catalog ]_vars

\* p2 has been deleted, p1 is ordered, and the manager's DELETE of p1 was refused
C22_Witness ==
  /\ catalog = {"p1"}
  /\ OrderedProducts = {"p1"}
  /\ reply = [op |-> "DELETE_PRODUCT", caller |-> "m1", resp |-> "HAS_ORDERS"]

\* ---- C23 -----------------------------------------------------------------------
\* C23: a staff stock edit that falls between the stock check of a checkout and
\* its decrement cannot leave the stock of a product negative: as long as a
\* single checkout has been started (so that no second checkout competes for the
\* stock), the stock of every product is at least 0.
C23_StockEditKeepsStockNonNegative ==
  req["r2"].pc = "idle" => \A p \in Products : stock[p] >= 0

\* ---- C24 -----------------------------------------------------------------------
\* C24: after any sequence of product updates every product has stock >= 0 and
\* price >= 0: an update that carries a negative stock or price is not stored.
C24_ProductValuesNonNegative ==
  \A p \in Products : stock[p] >= 0 /\ price[p] >= 0

\* ---- C25 -----------------------------------------------------------------------
\* C25: a status update changes no stock, no cart line and no order item: after
\* an order is set to CANCELLED the stock is what it was before, the quantities
\* of the order are not added back.
C25_StatusUpdateFrame ==
  [][ PatchStep
      => /\ stock' = stock
         /\ cartItems' = cartItems
         /\ Len(orders') = Len(orders)
         /\ \A i \in 1..Len(orders) : orders'[i].items = orders[i].items ]_vars

\* the order of u1 is CANCELLED and its quantities are still missing from stock
C25_Witness ==
  /\ Len(orders) = 1 /\ orders[1].userId = "u1" /\ orders[1].status = "CANCELLED"
  /\ req["r2"].pc = "idle"
  /\ \A p \in Products : stock[p] = stock0[p] - OrderedQty(orders[1].items, p)
  /\ stock["p1"] < stock0["p1"]
  /\ reply = [op |-> "PATCH_ORDER", caller |-> "m1", resp |-> "OK"]

\* ---- C26 -----------------------------------------------------------------------
\* C26: an authenticated caller's update-quantity (with a valid quantity) or
\* remove-line request that names a line of another user's cart is answered
\* FORBIDDEN (403), not the 401 of an unauthenticated caller.
C26_ForeignLineForbidden ==
  [][ CartLineStep /\ creq.pc = "idle" /\ creq' = creq /\ reply'.caller \in Users
      => \A id \in {i \in CartItemIds :
                      \E ci \in LineOf(i) : CartOwner(ci.cartId) # reply'.caller} :
           /\ reply'.op = "DELETE_CART_ITEM" /\ DeleteCartItem(reply'.caller, id)
              => reply'.resp = "FORBIDDEN" /\ HttpStatus(reply'.resp) = 403
           /\ \A quantity \in {q \in QuantityInputs : q.type = "int" /\ q.n >= 1} :
                reply'.op = "PATCH_CART_ITEM"
                /\ PatchCartItem(reply'.caller, id, quantity)
                => reply'.resp = "FORBIDDEN" /\ HttpStatus(reply'.resp) = 403 ]_vars

\* ---- C27 -----------------------------------------------------------------------
\* the line the owner `caller` names with `id`, if there is one
OwnLine(caller, id) == {ci \in LineOf(id) : CartOwner(ci.cartId) = caller}
\* 1 <= q <= the stock of the line's product, as read by the request
QuantityInRange(quantity, ci) ==
  quantity.type = "int" /\ 1 <= quantity.n /\ quantity.n <= stock[ci.productId]

\* every stored quantity is at least 1
QuantitiesPositive == \A ci \in cartItems : ci.quantity >= 1

\* the checks of an owner's update-quantity request: it goes on to the update
\* exactly when q is in range, and is answered 400 with no line changed otherwise
PatchReadGoesOn ==
  CartLineStep /\ creq.pc = "idle" /\ creq'.pc = "update"
  => /\ creq'.quantity >= 1
     /\ \A ci \in LineOf(creq'.id) : creq'.quantity <= stock[ci.productId]
PatchReadRejects ==
  CartLineStep /\ creq.pc = "idle" /\ creq' = creq
  /\ reply'.op = "PATCH_CART_ITEM" /\ reply'.caller \in Users
  => \A id \in CartItemIds : \A ci \in OwnLine(reply'.caller, id) :
       \A quantity \in QuantityInputs :
          PatchCartItem(reply'.caller, id, quantity)
          => /\ ~QuantityInRange(quantity, ci)
             /\ HttpStatus(reply'.resp) = 400
             /\ cartItems' = cartItems
\* the update statement of a request that passed the checks
PatchWriteStep == CartLineStep /\ creq.pc = "update" /\ creq' # creq
PatchWriteSets ==
  /\ reply'.resp = "OK"
  /\ cartItems' = {IF ci.id = creq.id THEN [ci EXCEPT !.quantity = creq.quantity]
                                       ELSE ci : ci \in cartItems}

RECURSIVE OrderedInAll(_, _)
OrderedInAll(os, p) ==
  IF os = <<>> THEN 0
  ELSE OrderedQty(Head(os).items, p) + OrderedInAll(Tail(os), p)

\* C28: with no staff product edits, in every reachable state and for every
\* product, the initial stock equals the current stock plus the sum of the
\* quantities of all order items of the product, whatever the interleaving of
\* the checkouts.
C28_StockConservation ==
  \A p \in Products : stock0[p] = stock[p] + OrderedInAll(orders, p)

\* two checkouts that interleaved have both committed and product p1 is oversold
C28_Witness ==
  /\ Len(orders) = 2
  /\ \A r \in Reqs : req[r].resp = "CREATED"
  /\ orders[1].userId # orders[2].userId
  /\ stock["p1"] = stock0["p1"] - (MaxQty + 1)
  /\ stock["p1"] < 0

\* ---- C29 -----------------------------------------------------------------------
\* C29: in every reachable state, every stored review by user u for product p is
\* backed by an order of u that contains p and has status DELIVERED now.
C29_ReviewBackedByDeliveredOrder ==
  \A k \in 1..Len(reviews) :
     DeliveredOrderWith(reviews[k].userId, reviews[k].productId)

\* ---- C30 -----------------------------------------------------------------------
\* C30: in the step that commits a successful checkout, the items of the created
\* order (line, product and quantity) are exactly the cart lines the commit
\* deletes, as they are when the transaction clears the cart.
C30_OrderedLinesAreDeletedLines ==
  [][ \A r \in Reqs :
        StepOf(r) /\ req[r].pc = "commit" /\ req'[r].resp = "CREATED"
        => /\ Len(orders') = Len(orders) + 1
           /\ {<<it.line, it.productId, it.quantity>> : it \in orders'[Len(orders')].items}
                = {<<ci.id, ci.productId, ci.quantity>> : ci \in cartItems \ cartItems'} ]_vars
====
